---- MODULE Spec2Model ----
(***************************************************************************)
(* lmetrics: the FileWatcher of lmetrics/watch.py, the inotify instance    *)
(* it reads its events from, the directory it watches and the processes    *)
(* that write log files into that directory.                               *)
(*                                                                         *)
(* The watcher follows the glob file*.txt in one directory.  The           *)
(* directory holds up to three names: two that match the glob and one      *)
(* that does not.  A file is an inode; a name is a link to an inode, so a  *)
(* rename moves the inode and keeps every open handle and every inotify    *)
(* watch on it.  A byte of a file is written [ino, pos, nl]: the inode     *)
(* and the offset say which byte it is, nl says whether it is a newline.   *)
(***************************************************************************)
EXTENDS Integers, Sequences, FiniteSets, TLC

\* ------------------------------------------------------------------ bounds

\* Number of operations the other processes do on the directory in one run:
\* when every operation on every name is followed, and when one scenario is.
MaxOps == 2
MaxScenarioOps == 3

\* Number of times watch() is called on the watcher in one run.
MaxRuns == 2

\* Number of watchers of the application.
NWatchers == 3

\* Number of rules a rule file defines, number of analyzers asked of one
\* registry, and length of a captured value.
\* Number of times the entry of one path is deleted from a WatchedFiles.
MaxDels == 2

MaxRules == 2
MaxAnalyzers == 3
MaxValueLen == 3

\* ------------------------------------------------------------- directory

F1 == "file.txt"
F2 == "file-new.txt"
Other == "other.txt"

Names == {F1, F2, Other}

\* file_path.match(str(self.path)) for the path <dir>/file*.txt
Matches(n) == n \in {F1, F2}

\* What a writer appends in one write: the start of a record, or the rest of
\* a record with its newline.
Chunks == {<<FALSE>>, <<FALSE, TRUE>>}

\* The content file.txt can have when the watcher starts: a record, or the
\* start of one.  The other files start with one record.
InitContents == {<<FALSE, TRUE>>, <<FALSE>>}

VARIABLES
    dir,            \* name -> inode linked under it, 0 when there is none
    content,        \* inode -> its bytes (TRUE is a newline), by inode number
    ops,            \* operations the other processes have done
    budget,         \* operations the other processes do in this run
    mark,           \* inode -> its length when it was last renamed, -1 when
                    \* it never was
    hidden,         \* the bytes <<ino, pos>> appended to a file while no
                    \* matching name linked it and the watcher had no handle
                    \* on it
    ncookie,        \* the last rename cookie the kernel used
    epoch,          \* inode -> how many times the file was truncated
    bad,            \* the bytes <<ino, pos>> that are not text in the
                    \* encoding of the watcher
    dirWatch,       \* the inotify instance is open and watches the directory
    watches,        \* watch descriptor -> inode it watches, 0 once removed
    queue,          \* events of the inotify instance not read yet
    pc,             \* where the watch task is
    globbed,        \* bootstrap: the paths the glob gave
    todo,           \* bootstrap: those of them not handled yet
    cur,            \* the path whose file is to be watched next
    files,          \* WatchedFiles._path_to_info
    wd_to_path,     \* WatchedFiles._wd_to_path
    move_cookies,   \* FileWatcher._move_cookies
    partial,        \* the StreamHelper's text without a newline yet
    calls,          \* the lines the callback was invoked with, in order
    received,       \* every byte passed to receive_data, in order, with the
                    \* path it was read under, that path's entry number and
                    \* whether a matching name linked the file at the read
    gen,            \* path -> how many entries of that path were deleted
    raises,         \* the action of the rule raises on the lines it gets
    exception,      \* what the watch task ended with, "" when with nothing
    stale,          \* history: the positions of partial that hold data
                    \* buffered for a file whose handle was closed since
    staleCalls,     \* history: the positions of calls whose line holds such
                    \* data
    nopen,          \* history: how many handles were opened and not closed
    stop,           \* how the last stop() of this run of the watcher ended
    runs,           \* how many times watch() was called
    restartCalls,   \* how many calls the callback had got at the last watch()
    orphans,        \* how many tasks run that _task does not refer to
    app,            \* the process: main(), the web application, its watchers
    sources,        \* rule file path -> what the Lua code of the file defines
    rules_by_file,  \* RuleRegistry._rules_by_file: path -> list of rules
    heap,           \* the LuaFileRule objects created so far; a rule object
                    \* is its position here
    analyzers,      \* the FileAnalyzers get_file_analyzer has returned
    loads,          \* history: rule file path -> how many times it was
                    \* read and executed
    analysis,       \* the last call of FileAnalyzer.analyze_line, with the
                    \* actions it invoked
    conv            \* a call of LuaFileRule._convert_values

fsVars == <<dir, content, ops, budget, ncookie, mark, hidden, epoch, bad>>
inVars == <<dirWatch, watches, queue>>
taskVars == <<pc, globbed, todo, cur>>
watcherVars ==
    <<files, wd_to_path, move_cookies, partial, calls, received, gen, raises,
      exception, stale, staleCalls, nopen>>
lifeVars == <<stop, runs, restartCalls, orphans>>
ruleVars ==
    <<sources, rules_by_file, heap, analyzers, loads, analysis, conv>>
vars == <<fsVars, inVars, taskVars, watcherVars, lifeVars, app, ruleVars>>

\* ------------------------------------------------------------ WatchedFiles

None == 0
Default == -1
\* A handle: the inode it is open on, its offset, and the offset it was put
\* at when it was opened or last sought (0 when it reads from the start).
NoFd == [ino |-> 0, pos |-> 0, from |-> 0]
NoPath == ""

\* WatchedFiles.set(path): the entry is created with both fields None.
FilesSet(s, path) ==
    IF path \in DOMAIN s.files
    THEN s
    ELSE [s EXCEPT !.files = (path :> [wd |-> None, fd |-> NoFd]) @@ @]

\* WatchedFiles.set(path, wd=wd)
FilesSetWd(s, path, wd) ==
    LET t == FilesSet(s, path)
    IN [t EXCEPT !.files[path].wd = wd,
                 !.wd_to_path = IF wd = None THEN @ ELSE (wd :> path) @@ @]

\* WatchedFiles.set(path, fd=fd)
FilesSetFd(s, path, fd) ==
    LET t == FilesSet(s, path)
    IN [t EXCEPT !.files[path].fd = fd]

\* WatchedFiles.__getitem__(wd): the path of the entry, NoPath for None.
FilesPathByWd(s, wd) ==
    IF wd \in DOMAIN s.wd_to_path /\ s.wd_to_path[wd] \in DOMAIN s.files
    THEN s.wd_to_path[wd]
    ELSE NoPath

\* del WatchedFiles[path]: KeyError when there is no entry.
FilesDelPath(s, path) ==
    IF path \in DOMAIN s.files
    THEN [s EXCEPT !.files = [p \in DOMAIN s.files \ {path} |-> s.files[p]],
                   !.gen[path] = @ + 1]
    ELSE [s EXCEPT !.err = TRUE, !.exc = "KeyError"]

\* del WatchedFiles[wd]: _get_by_wd(key)['path'] is a TypeError when the
\* descriptor gives no entry.
FilesDelWd(s, wd) ==
    IF FilesPathByWd(s, wd) = NoPath
    THEN [s EXCEPT !.err = TRUE, !.exc = "TypeError"]
    ELSE LET path == s.wd_to_path[wd]
         IN [s EXCEPT !.wd_to_path = [k \in DOMAIN s.wd_to_path \ {wd} |->
                                         s.wd_to_path[k]],
                      !.files = [q \in DOMAIN s.files \ {path} |-> s.files[q]],
                      !.gen[path] = @ + 1]

\* A set() that makes the entry anew on every call: a field that is not
\* passed is None afterwards.
WatchedFilesSetAnew(s, path, wd, given, fd) ==
    [s EXCEPT !.files = (path :> [wd |-> IF wd = Default THEN None ELSE wd,
                                  fd |-> IF given THEN fd ELSE NoFd]) @@ @,
              !.wd_to_path = IF wd \in {Default, None} THEN @
                             ELSE (wd :> path) @@ @]

\* WatchedFiles.set(path, wd, fd): wd is Default when no wd is passed, and
\* fd is passed when given says so.
WatchedFilesSet(s, path, wd, given, fd) ==
    LET t == IF wd = Default THEN FilesSet(s, path) ELSE FilesSetWd(s, path, wd)
    IN IF given THEN FilesSetFd(t, path, fd) ELSE t

\* ---------------------------------------------------------------- inotify

DirEvent(kind, name, cookie) ==
    [kind |-> kind, name |-> name, wd |-> 0, cookie |-> cookie]

FileEvent(kind, wd) ==
    [kind |-> kind, name |-> NoPath, wd |-> wd, cookie |-> 0]

\* The kernel drops an event equal to the last one still in the queue.
Enqueue(q, e) ==
    IF q # <<>> /\ q[Len(q)] = e THEN q ELSE Append(q, e)

\* The watch descriptor on an inode, None when it is not watched.
WdOf(w, ino) ==
    IF \E k \in DOMAIN w : w[k] = ino
    THEN CHOOSE k \in DOMAIN w : w[k] = ino
    ELSE None

\* An inode lives while a name links it or a handle of the watcher is open.
InUse(ino, d, f) ==
    \/ \E n \in Names : d[n] = ino
    \/ \E p \in DOMAIN f : f[p].fd.ino = ino

RECURSIVE IgnoredEvents(_, _)
IgnoredEvents(q, wds) ==
    IF wds = {} THEN q
    ELSE LET k == CHOOSE x \in wds : \A y \in wds : x <= y
         IN IgnoredEvents(Enqueue(q, FileEvent("ignored", k)), wds \ {k})

\* When an inode is freed the kernel removes the watch on it (IN_IGNORED).
Reap(s, d) ==
    LET gone == {k \in DOMAIN s.watches :
                    s.watches[k] # 0 /\ ~InUse(s.watches[k], d, s.files)}
    IN [s EXCEPT !.watches = [k \in DOMAIN s.watches |->
                                 IF k \in gone THEN 0 ELSE s.watches[k]],
                 !.queue = IgnoredEvents(@, gone)]

\* inotify.watch(path, IN_MODIFY): the descriptor is s.ret.  A second watch
\* on an inode returns the descriptor the inode has.
InotifyWatch(s, path) ==
    IF dir[path] = 0
    THEN [s EXCEPT !.err = TRUE, !.exc = "watch"]
    ELSE IF WdOf(s.watches, dir[path]) # None
    THEN [s EXCEPT !.ret = WdOf(s.watches, dir[path])]
    ELSE [s EXCEPT !.watches = Append(@, dir[path]),
                   !.ret = Len(s.watches) + 1]

\* inotify.ignore(wd): fails on a descriptor that is not a watch.
InotifyIgnore(s, wd) ==
    IF wd \in DOMAIN s.watches /\ s.watches[wd] # 0
    THEN [s EXCEPT !.watches[wd] = 0,
                   !.queue = Enqueue(@, FileEvent("ignored", wd))]
    ELSE [s EXCEPT !.err = TRUE, !.exc = "ignore"]

\* ----------------------------------------------------------- StreamHelper

\* The bytes of inode ino after offset from, as they are read; ep tells the
\* bytes written after a truncation from those written before it.  Nothing
\* is read at or after the end of the file.
BytesFrom(ino, from) ==
    [i \in 1..(Len(content[ino]) - from) |->
        [ino |-> ino, pos |-> from + i, nl |-> content[ino][from + i],
         ep |-> epoch[ino]]]

\* The positions of the buffered text part that hold bytes of inode ino.
BufferedFor(part, ino) == {k \in DOMAIN part : part[k].ino = ino}

RECURSIVE SplitLines(_, _, _)
\* data.split('\n'): the full lines (newline removed) and the rest.
SplitLines(data, lines, line) ==
    IF data = <<>> THEN [lines |-> lines, rest |-> line]
    ELSE IF Head(data).nl
    THEN SplitLines(Tail(data), Append(lines, line), <<>>)
    ELSE SplitLines(Tail(data), lines, Append(line, Head(data)))

\* The callback: FileAnalyzer.analyze_line(line) runs the rules on the line;
\* what the action of a rule raises is caught nowhere.
AnalyzeLine(s, line) ==
    [s EXCEPT !.calls = Append(@, line),
              !.err = raises,
              !.exc = IF raises THEN "action" ELSE @]

RECURSIVE Callbacks(_, _)
\* for line in lines: self._callback(line)
Callbacks(s, lines) ==
    IF lines = <<>> \/ s.err THEN s
    ELSE Callbacks(AnalyzeLine(s, Head(lines)), Tail(lines))

\* StreamHelper.receive_data(data): the callback gets every full line.
ReceiveData(s, data) ==
    IF data = <<>> THEN s
    ELSE LET r == SplitLines(data, <<>>, s.partial)
             t == IF r.lines = <<>> THEN s
                  ELSE [s EXCEPT !.stale = {},
                                 !.staleCalls =
                                     IF s.stale = {} THEN @
                                     ELSE @ \cup {Len(s.calls) + 1}]
         IN Callbacks([t EXCEPT !.partial = r.rest], r.lines)

\* ------------------------------------------------------------- FileWatcher

\* _close_file without lines 149-151: the handle stays open in its entry.
CloseFileSkip(s, path) == s

\* FileWatcher._close_file(path): the handle is closed, the text the
\* StreamHelper holds stays.
CloseFile(s, path) ==
    IF path \notin DOMAIN s.files THEN s
    ELSE IF s.files[path].fd # NoFd
    THEN [FilesSetFd(s, path, NoFd) EXCEPT
             !.stale = @ \cup BufferedFor(s.partial, s.files[path].fd.ino),
             !.nopen = @ - 1]
    ELSE s

\* FileWatcher._get_file_fd(path): open() fails when no file has the name.
GetFileFd(s, path) ==
    LET t == FilesSet(s, path)
    IN IF t.files[path].fd # NoFd THEN t
       ELSE IF dir[path] = 0 THEN [t EXCEPT !.err = TRUE, !.exc = "open"]
       ELSE [FilesSetFd(t, path, [ino |-> dir[path], pos |-> 0, from |-> 0])
                EXCEPT !.nopen = @ + 1]

\* fd.read() and receive_data of what was read.  The handle reads on from
\* its offset, which nothing resets; the read decodes with errors='strict'
\* and raises UnicodeDecodeError on a byte that is not text.
ReadFd(s, path) ==
    LET fd == s.files[path].fd
        data == BytesFrom(fd.ino, fd.pos)
        t == [s EXCEPT !.files[path].fd.pos =
                           IF fd.pos > Len(content[fd.ino])
                           THEN fd.pos ELSE Len(content[fd.ino]),
                       !.received = @ \o
                           [i \in 1..Len(data) |->
                               [name |-> path, gen |-> s.gen[path],
                                ino |-> fd.ino, pos |-> data[i].pos,
                                m |-> \E n \in Names :
                                         Matches(n) /\ dir[n] = fd.ino]]]
    IN IF \E i \in 1..Len(data) : <<fd.ino, data[i].pos>> \in bad
       THEN [s EXCEPT !.err = TRUE, !.exc = "decode"]
       ELSE ReceiveData(t, data)

\* FileWatcher._read_file_content(path, from_start)
ReadFileContent(s, path, from_start) ==
    LET c == IF from_start THEN CloseFile(s, path) ELSE s
        t == GetFileFd(c, path)
    IN IF t.err THEN t ELSE ReadFd(t, path)

\* FileWatcher._skip_to_file_end(path)
SkipToFileEnd(s, path) ==
    LET t == GetFileFd(s, path)
    IN IF t.err THEN t
       ELSE [t EXCEPT !.files[path].fd.pos = Len(content[t.files[path].fd.ino]),
                      !.files[path].fd.from = Len(content[t.files[path].fd.ino])]

\* FileWatcher._watch_file(inotify, path)
WatchFile(s, path) ==
    LET t == InotifyWatch(s, path)
    IN IF t.err THEN t ELSE FilesSetWd(t, path, t.ret)

\* The watcher without the match of line 88: every name of the directory is
\* taken for a name of the glob.
EventMatchesAny(e) == TRUE

\* _handle_dir_event: file_path.match(str(self.path))
EventMatches(e) == Matches(e.name)

\* _handle_dir_event, create or moved-to, up to the call of _watch_file.
HandleCreated(s, e) ==
    IF e.cookie \in s.move_cookies
    THEN SkipToFileEnd([s EXCEPT !.move_cookies = @ \ {e.cookie}], e.name)
    ELSE ReadFileContent(s, e.name, TRUE)

\* _handle_dir_event, moved-from.
HandleMovedFrom(s, e) ==
    IF e.name \notin DOMAIN s.files
    THEN [s EXCEPT !.err = TRUE, !.exc = "TypeError"]      \* None['wd']
    ELSE LET t == InotifyIgnore(s, s.files[e.name].wd)
         IN IF t.err THEN t
            ELSE FilesDelPath(
                     CloseFile([t EXCEPT !.move_cookies = @ \cup {e.cookie}],
                               e.name),
                     e.name)

\* _handle_dir_event, delete.
HandleDelete(s, e) ==
    FilesDelPath(CloseFile(s, e.name), e.name)

\* _handle_file_event
HandleFileEvent(s, e) ==
    LET path == FilesPathByWd(s, e.wd)
    IN IF path = NoPath THEN s
       ELSE IF e.kind = "modify" THEN ReadFileContent(s, path, FALSE)
       ELSE s

\* ---------------------------------------------------------------- actions

\* The state the methods of the watcher read and change.
Cur ==
    [files |-> files, wd_to_path |-> wd_to_path, move_cookies |-> move_cookies,
     partial |-> partial, calls |-> calls, received |-> received, gen |-> gen,
     watches |-> watches, queue |-> queue, ret |-> None, err |-> FALSE,
     exc |-> "", stale |-> stale, staleCalls |-> staleCalls, nopen |-> nopen]

\* The task goes on: s is the state its step leaves.
Continue(s, d) ==
    LET r == Reap(s, d)
    IN /\ files' = r.files
       /\ wd_to_path' = r.wd_to_path
       /\ move_cookies' = r.move_cookies
       /\ partial' = r.partial
       /\ calls' = r.calls
       /\ received' = r.received
       /\ gen' = r.gen
       /\ raises' = raises
       /\ exception' = exception
       /\ stale' = r.stale
       /\ staleCalls' = r.staleCalls
       /\ nopen' = r.nopen
       /\ watches' = r.watches
       /\ queue' = r.queue

\* The task ends with the exception: contextlib.closing closes the inotify
\* instance, which removes its watches and drops its events.
Fail(s) ==
    /\ files' = s.files
    /\ wd_to_path' = s.wd_to_path
    /\ move_cookies' = s.move_cookies
    /\ partial' = s.partial
    /\ calls' = s.calls
    /\ received' = s.received
    /\ gen' = s.gen
    /\ raises' = raises
    /\ exception' = s.exc
    /\ stale' = s.stale
    /\ staleCalls' = s.staleCalls
    /\ nopen' = s.nopen
    /\ watches' = [k \in DOMAIN s.watches |-> 0]
    /\ queue' = <<>>
    /\ dirWatch' = FALSE
    /\ pc' = "failed"
    /\ UNCHANGED <<globbed, todo, cur>>

\* FileWatcher.watch(): the task is created.  The fields of the watcher are
\* what __init__ or the run before left.
Watch ==
    /\ pc = "new" \/ (pc = "cancelled" /\ stop = "returned")
    /\ runs < MaxRuns
    /\ pc' = "init"
    /\ runs' = runs + 1
    /\ restartCalls' = Len(calls)
    /\ stop' = "none"
    /\ exception' = ""
    /\ UNCHANGED <<fsVars, app, ruleVars, inVars, globbed, todo, cur, files, wd_to_path,
                   move_cookies, partial, calls, received, gen, raises,
                   stale, staleCalls, nopen, orphans>>

\* FileWatcher.watch() while the task of an earlier watch() is not yet
\* started or waits in get_event: _task is assigned the new task and nothing
\* refers to the earlier one, which goes on with its own inotify instance
\* (its later steps are not followed here; the positions below are those of
\* the task _task refers to).
WatchAgain ==
    /\ pc \in {"init", "loop"}
    /\ runs < MaxRuns
    /\ orphans' = orphans + 1
    /\ pc' = "init"
    /\ runs' = runs + 1
    /\ restartCalls' = Len(calls)
    /\ stop' = "none"
    /\ exception' = ""
    /\ UNCHANGED <<fsVars, app, ruleVars, inVars, globbed, todo, cur, files, wd_to_path,
                   move_cookies, partial, calls, received, gen, raises,
                   stale, staleCalls, nopen>>

\* _watch and _watch_loop up to _watch_dir: the directory is watched.
\* The inotify instance is a new one: it has no watch and no event.
WatchDir ==
    /\ pc = "init"
    /\ dirWatch' = TRUE
    /\ watches' = <<>>
    /\ queue' = <<>>
    /\ pc' = "glob"
    /\ UNCHANGED <<fsVars, app, ruleVars, lifeVars, globbed, todo, cur, watcherVars>>

\* self.path.parent.glob(self.path.name): the directory is listed once.
Glob ==
    /\ pc = "glob"
    /\ \E order \in {<<F1, F2>>, <<F2, F1>>} :
          todo' = SelectSeq(order, LAMBDA n : dir[n] # 0)
    /\ globbed' = todo'
    /\ pc' = "bootread"
    /\ UNCHANGED <<fsVars, app, ruleVars, lifeVars, inVars, cur, watcherVars>>

\* _watch_loop: self._read_file_content(file_path, from_start=True)
BootstrapRead(s, path) == ReadFileContent(s, path, TRUE)

\* Bootstrap: the file of the next path of the glob is read.
BootRead ==
    /\ pc = "bootread"
    /\ todo # <<>>
    /\ LET s == BootstrapRead(Cur, Head(todo))
       IN \/ /\ ~s.err
             /\ Continue(s, dir)
             /\ pc' = "bootwatch"
             /\ UNCHANGED <<dirWatch, globbed, todo, cur>>
          \/ /\ s.err
             /\ Fail(s)
    /\ UNCHANGED <<fsVars, app, ruleVars, lifeVars, lifeVars>>

\* Bootstrap: _watch_file(inotify, file_path)
BootWatch ==
    /\ pc = "bootwatch"
    /\ LET s == WatchFile(Cur, Head(todo))
       IN \/ /\ ~s.err
             /\ Continue(s, dir)
             /\ todo' = Tail(todo)
             /\ pc' = "bootread"
             /\ UNCHANGED <<dirWatch, globbed, cur>>
          \/ /\ s.err
             /\ Fail(s)
    /\ UNCHANGED <<fsVars, app, ruleVars, lifeVars, lifeVars>>

\* Bootstrap: the glob is exhausted, the task enters the event loop.
BootEnd ==
    /\ pc = "bootread"
    /\ todo = <<>>
    /\ pc' = "loop"
    /\ UNCHANGED <<fsVars, app, ruleVars, lifeVars, inVars, globbed, todo, cur, watcherVars>>

\* The state with the first event taken from the queue.
Popped == [Cur EXCEPT !.queue = Tail(queue)]

\* An event on a name that does not match is dropped.
EventIgnored ==
    /\ pc = "loop" /\ queue # <<>>
    /\ Head(queue).name # NoPath /\ ~EventMatches(Head(queue))
    /\ Continue(Popped, dir)
    /\ UNCHANGED <<fsVars, app, ruleVars, lifeVars, dirWatch, taskVars>>

\* A create or moved-to event on a matching name: read or skip.
EventCreated ==
    /\ pc = "loop" /\ queue # <<>>
    /\ Head(queue).kind \in {"create", "moved_to"} /\ EventMatches(Head(queue))
    /\ LET s == HandleCreated(Popped, Head(queue))
       IN \/ /\ ~s.err
             /\ Continue(s, dir)
             /\ pc' = "evwatch"
             /\ cur' = Head(queue).name
             /\ UNCHANGED <<dirWatch, globbed, todo>>
          \/ /\ s.err
             /\ Fail(s)
    /\ UNCHANGED <<fsVars, app, ruleVars, lifeVars, lifeVars>>

\* The _watch_file that ends the handling of a create or moved-to event.
EventWatch ==
    /\ pc = "evwatch"
    /\ LET s == WatchFile(Cur, cur)
       IN \/ /\ ~s.err
             /\ Continue(s, dir)
             /\ pc' = "loop"
             /\ UNCHANGED <<dirWatch, globbed, todo, cur>>
          \/ /\ s.err
             /\ Fail(s)
    /\ UNCHANGED <<fsVars, app, ruleVars, lifeVars, lifeVars>>

\* A moved-from event on a matching name.
EventMovedFrom ==
    /\ pc = "loop" /\ queue # <<>>
    /\ Head(queue).kind = "moved_from" /\ EventMatches(Head(queue))
    /\ LET s == HandleMovedFrom(Popped, Head(queue))
       IN \/ /\ ~s.err
             /\ Continue(s, dir)
             /\ UNCHANGED <<dirWatch, taskVars>>
          \/ /\ s.err
             /\ Fail(s)
    /\ UNCHANGED <<fsVars, app, ruleVars, lifeVars, lifeVars>>

\* A delete event on a matching name.
EventDelete ==
    /\ pc = "loop" /\ queue # <<>>
    /\ Head(queue).kind = "delete" /\ EventMatches(Head(queue))
    /\ LET s == HandleDelete(Popped, Head(queue))
       IN \/ /\ ~s.err
             /\ Continue(s, dir)
             /\ UNCHANGED <<dirWatch, taskVars>>
          \/ /\ s.err
             /\ Fail(s)
    /\ UNCHANGED <<fsVars, app, ruleVars, lifeVars, lifeVars>>

\* An event of a watch on a file.
EventFile ==
    /\ pc = "loop" /\ queue # <<>>
    /\ Head(queue).name = NoPath
    /\ LET s == HandleFileEvent(Popped, Head(queue))
       IN \/ /\ ~s.err
             /\ Continue(s, dir)
             /\ UNCHANGED <<dirWatch, taskVars>>
          \/ /\ s.err
             /\ Fail(s)
    /\ UNCHANGED <<fsVars, app, ruleVars, lifeVars, lifeVars>>

\* stop() on a task that was cancelled before: awaiting it raises
\* CancelledError, and a stop() that did not catch it would raise.
StopOutcomeUncaught(p) ==
    IF p \in {"new", "failed", "cancelled"} THEN "raised" ELSE "returned"

\* How stop() ends for a task at position p.  With no task (_task is None)
\* "await self._task" raises TypeError; a task that ended with an exception
\* hands it to the await, and only CancelledError is caught there.
StopOutcome(p) ==
    IF p \in {"new", "failed"} THEN "raised" ELSE "returned"

\* A stop() that leaves the handles of the table open.
CloseNone(f) == f

\* Every handle of the table closed: the loop of stop() over _close_file.
CloseAll(f) ==
    [p \in DOMAIN f |-> [f[p] EXCEPT !.fd = NoFd]]

\* What stop() changes, as stop() leaves it.  The cancelled task leaves
\* _watch through contextlib.closing, which closes the inotify instance;
\* then stop() closes the handles.  When the await raises, stop() ends there.
StopResult ==
    IF StopOutcome(pc) = "raised"
    THEN [stop |-> "raised", pc |-> pc, dirWatch |-> dirWatch,
          watches |-> watches, queue |-> queue, files |-> files,
          stale |-> stale, nopen |-> nopen]
    ELSE [stop |-> "returned", pc |-> "cancelled", dirWatch |-> FALSE,
          watches |-> [k \in DOMAIN watches |-> 0], queue |-> <<>>,
          files |-> CloseAll(files),
          stale |-> stale \cup
                    {k \in DOMAIN partial :
                        \E p \in DOMAIN files :
                            /\ CloseAll(files)[p].fd # files[p].fd
                            /\ partial[k].ino = files[p].fd.ino},
          nopen |-> nopen - Cardinality({p \in DOMAIN files :
                                  CloseAll(files)[p].fd # files[p].fd})]

\* FileWatcher.stop().  It runs on the event loop of the task, so it runs
\* when the task is not yet started, waits in get_event, or has ended.
Stop ==
    /\ pc \in {"new", "init", "loop", "failed", "cancelled"}
    /\ stop' = StopResult.stop
    /\ pc' = StopResult.pc
    /\ dirWatch' = StopResult.dirWatch
    /\ watches' = StopResult.watches
    /\ queue' = StopResult.queue
    /\ files' = StopResult.files
    /\ stale' = StopResult.stale
    /\ nopen' = StopResult.nopen
    /\ UNCHANGED <<fsVars, app, ruleVars, runs, restartCalls, globbed, todo, cur, wd_to_path,
                   move_cookies, partial, calls, received, gen, raises,
                   exception, staleCalls, orphans>>

\* ------------------------------------------------------------ application

\* The parameters of create_web_app and the arguments main() calls it with.
WebAppParams == 4
MainWebAppArgs == 5

\* The configurations main() is run with: the type of the metric is known
\* or not, the rule file is there and parses, is missing, or has a syntax
\* error.
Configs == [metric : {"ok", "unknown"}, rules : {"ok", "missing", "syntax"}]

\* No process: the watcher is used alone.
NoApp ==
    [entry |-> "none", cfg |-> [metric |-> "ok", rules |-> "ok"], pc |-> "none",
     exit |-> "", tasks |-> <<>>, stopCalled |-> <<>>, next |-> 0]

\* A failure of create_metrics that nothing reports: the metric is skipped.
CreateMetricsSkip(c) == "ok"

\* LMetricsScript._create_metrics: InvalidMetricType becomes ErrorExitMessage.
CreateMetrics(c) ==
    IF c.metric = "unknown" THEN "ErrorExitMessage" ELSE "ok"

\* LMetricsScript._create_file_analyzers: FileNotFoundError and
\* RuleSyntaxError become ErrorExitMessage.
CreateFileAnalyzers(c) ==
    IF c.rules \in {"missing", "syntax"} THEN "ErrorExitMessage" ELSE "ok"

\* create_web_app called with nargs positional arguments.
CreateWebApp(nargs) ==
    IF nargs = WebAppParams THEN "ok" ELSE "TypeError"

\* main(): _load_config
MainLoadConfig ==
    /\ app.pc = "start"
    /\ app' = [app EXCEPT !.pc = "config"]
    /\ UNCHANGED <<fsVars, inVars, taskVars, watcherVars, lifeVars, ruleVars>>

\* main(): _get_registry and _create_metrics
MainCreateMetrics ==
    /\ app.pc = "config"
    /\ app' = IF CreateMetrics(app.cfg) = "ok"
              THEN [app EXCEPT !.pc = "metrics"]
              ELSE [app EXCEPT !.pc = "exit", !.exit = CreateMetrics(app.cfg)]
    /\ UNCHANGED <<fsVars, inVars, taskVars, watcherVars, lifeVars, ruleVars>>

\* main(): _create_file_analyzers
MainCreateFileAnalyzers ==
    /\ app.pc = "metrics"
    /\ app' = IF CreateFileAnalyzers(app.cfg) = "ok"
              THEN [app EXCEPT !.pc = "analyzers"]
              ELSE [app EXCEPT !.pc = "exit",
                               !.exit = CreateFileAnalyzers(app.cfg)]
    /\ UNCHANGED <<fsVars, inVars, taskVars, watcherVars, lifeVars, ruleVars>>

\* main(): create_watchers; no watcher has a task.
MainCreateWatchers ==
    /\ app.pc = "analyzers"
    /\ app' = [app EXCEPT !.pc = "watchers",
                          !.tasks = [i \in 1..NWatchers |-> "new"],
                          !.stopCalled = [i \in 1..NWatchers |-> FALSE]]
    /\ UNCHANGED <<fsVars, inVars, taskVars, watcherVars, lifeVars, ruleVars>>

\* create_web_app, called by main() or, with its four arguments, by another
\* caller that has its watchers.  main() passes the registry as a fifth
\* argument, which create_web_app does not take: the call raises TypeError
\* and main() never reaches web.run_app.
CreateApp ==
    /\ app.pc = "watchers"
    /\ LET r == CreateWebApp(IF app.entry = "main" THEN MainWebAppArgs
                             ELSE WebAppParams)
       IN app' = IF r = "ok" THEN [app EXCEPT !.pc = "app"]
                 ELSE [app EXCEPT !.pc = "exit", !.exit = r]
    /\ UNCHANGED <<fsVars, inVars, taskVars, watcherVars, lifeVars, ruleVars>>

\* on_startup: _start_watchers calls watch() on every watcher; each has a
\* task that has not run yet.
StartWatchers ==
    /\ app.pc = "app"
    /\ app' = [app EXCEPT !.pc = "serving",
                          !.tasks = [i \in 1..NWatchers |-> "init"]]
    /\ UNCHANGED <<fsVars, inVars, taskVars, watcherVars, lifeVars, ruleVars>>

\* The watch task of watcher i runs up to its first get_event.
WatcherRuns(i) ==
    /\ app.pc \in {"serving", "stopping"}
    /\ app.tasks[i] = "init"
    /\ app' = [app EXCEPT !.tasks[i] = "loop"]
    /\ UNCHANGED <<fsVars, inVars, taskVars, watcherVars, lifeVars, ruleVars>>

\* The watch task of watcher i ends with an exception.
WatcherFails(i) ==
    /\ app.pc \in {"serving", "stopping"}
    /\ app.tasks[i] = "loop"
    /\ app' = [app EXCEPT !.tasks[i] = "failed"]
    /\ UNCHANGED <<fsVars, inVars, taskVars, watcherVars, lifeVars, ruleVars>>

\* app.shutdown(): on_shutdown runs _stop_watchers.
Shutdown ==
    /\ app.pc = "serving"
    /\ app' = [app EXCEPT !.pc = "stopping", !.next = 1]
    /\ UNCHANGED <<fsVars, inVars, taskVars, watcherVars, lifeVars, ruleVars>>

\* _stop_watchers: await watcher.stop() for the next watcher; what stop()
\* raises leaves the loop.
StopNextWatcher ==
    /\ app.pc = "stopping"
    /\ app.next <= NWatchers
    /\ LET i == app.next
       IN app' = IF StopOutcome(app.tasks[i]) = "raised"
                 THEN [app EXCEPT !.pc = "down", !.exit = "stop raised",
                                  !.stopCalled[i] = TRUE]
                 ELSE [app EXCEPT !.tasks[i] = "cancelled",
                                  !.stopCalled[i] = TRUE,
                                  !.next = i + 1]
    /\ UNCHANGED <<fsVars, inVars, taskVars, watcherVars, lifeVars, ruleVars>>

\* _stop_watchers: the loop over the watchers is done.
StopWatchersDone ==
    /\ app.pc = "stopping"
    /\ app.next > NWatchers
    /\ app' = [app EXCEPT !.pc = "down"]
    /\ UNCHANGED <<fsVars, inVars, taskVars, watcherVars, lifeVars, ruleVars>>

\* ------------------------------------------------------- other processes

\* The other processes are followed while the directory is watched.
FsEnabled == dirWatch /\ ops < budget

\* A process creates an empty file.
FsCreate(n) ==
    /\ FsEnabled /\ dir[n] = 0
    /\ content' = Append(content, <<>>)
    /\ mark' = Append(mark, -1)
    /\ epoch' = Append(epoch, 0)
    /\ dir' = [dir EXCEPT ![n] = Len(content) + 1]
    /\ queue' = Enqueue(queue, DirEvent("create", n, 0))
    /\ ops' = ops + 1
    /\ UNCHANGED <<budget, bad, app, ruleVars, lifeVars>>
    /\ UNCHANGED <<ncookie, hidden, dirWatch, watches, taskVars, watcherVars>>

\* A process appends a chunk to a file.
FsAppend(n, chunk) ==
    /\ FsEnabled /\ dir[n] # 0
    /\ content' = [content EXCEPT ![dir[n]] = @ \o chunk]
    /\ hidden' = IF Matches(n) \/ \E p \in DOMAIN files : files[p].fd.ino = dir[n]
                 THEN hidden
                 ELSE hidden \cup {<<dir[n], Len(content[dir[n]]) + i>> :
                                      i \in 1..Len(chunk)}
    /\ queue' = IF WdOf(watches, dir[n]) # None
                THEN Enqueue(queue, FileEvent("modify", WdOf(watches, dir[n])))
                ELSE queue
    /\ ops' = ops + 1
    /\ UNCHANGED <<budget, bad, app, ruleVars, lifeVars>>
    /\ UNCHANGED <<dir, ncookie, mark, epoch, dirWatch, watches, taskVars,
                   watcherVars>>

\* A process appends a byte that is not text in the watcher's encoding.
FsAppendBad(n) ==
    /\ FsEnabled /\ dir[n] # 0
    /\ content' = [content EXCEPT ![dir[n]] = Append(@, FALSE)]
    /\ bad' = bad \cup {<<dir[n], Len(content[dir[n]]) + 1>>}
    /\ queue' = IF WdOf(watches, dir[n]) # None
                THEN Enqueue(queue, FileEvent("modify", WdOf(watches, dir[n])))
                ELSE queue
    /\ ops' = ops + 1
    /\ UNCHANGED <<dir, budget, ncookie, mark, hidden, epoch, dirWatch, watches,
                   taskVars, watcherVars, app, ruleVars, lifeVars>>

\* A process truncates a file to length 0 (it opens it for writing).
FsTruncate(n) ==
    /\ FsEnabled /\ dir[n] # 0 /\ content[dir[n]] # <<>>
    /\ content' = [content EXCEPT ![dir[n]] = <<>>]
    /\ epoch' = [epoch EXCEPT ![dir[n]] = @ + 1]
    /\ bad' = {b \in bad : b[1] # dir[n]}
    /\ queue' = IF WdOf(watches, dir[n]) # None
                THEN Enqueue(queue, FileEvent("modify", WdOf(watches, dir[n])))
                ELSE queue
    /\ ops' = ops + 1
    /\ UNCHANGED <<dir, budget, ncookie, mark, hidden, dirWatch, watches,
                   taskVars, watcherVars, app, ruleVars, lifeVars>>

\* A process renames a file; a file of the new name is replaced.
FsRename(a, b) ==
    /\ FsEnabled /\ a # b /\ dir[a] # 0
    /\ dir' = [dir EXCEPT ![b] = dir[a], ![a] = 0]
    /\ ncookie' = ncookie + 1
    /\ mark' = [mark EXCEPT ![dir[a]] = Len(content[dir[a]])]
    /\ LET q == Enqueue(Enqueue(queue, DirEvent("moved_from", a, ncookie')),
                        DirEvent("moved_to", b, ncookie'))
           r == Reap([Cur EXCEPT !.queue = q], dir')
       IN /\ queue' = r.queue
          /\ watches' = r.watches
    /\ ops' = ops + 1
    /\ UNCHANGED <<budget, bad, app, ruleVars, lifeVars>>
    /\ UNCHANGED <<content, hidden, epoch, dirWatch, taskVars, watcherVars>>

\* A process removes a file.
FsUnlink(n) ==
    /\ FsEnabled /\ dir[n] # 0
    /\ dir' = [dir EXCEPT ![n] = 0]
    /\ LET q == Enqueue(queue, DirEvent("delete", n, 0))
           r == Reap([Cur EXCEPT !.queue = q], dir')
       IN /\ queue' = r.queue
          /\ watches' = r.watches
    /\ ops' = ops + 1
    /\ UNCHANGED <<budget, bad, app, ruleVars, lifeVars>>
    /\ UNCHANGED <<content, ncookie, mark, hidden, epoch, dirWatch, taskVars,
                   watcherVars>>

\* ------------------------------------------------- WatchedFiles operations

\* A handle on the first file.
Fd1 == [ino |-> 1, pos |-> 0, from |-> 0]

\* The fields of the table change as the call leaves them; a call that
\* raises changes nothing.
FilesResult(s) ==
    /\ files' = IF s.err THEN files ELSE s.files
    /\ wd_to_path' = IF s.err THEN wd_to_path ELSE s.wd_to_path
    /\ gen' = IF s.err THEN gen ELSE s.gen
    /\ UNCHANGED <<fsVars, inVars, taskVars, lifeVars, app, ruleVars,
                   move_cookies, partial, calls, received, raises, exception,
                   stale, staleCalls, nopen>>

\* files.set(path, wd=wd, fd=fd), each argument passed or not.
FilesOpSet(path, wd, given, fd) ==
    /\ given \/ fd = NoFd
    /\ FilesResult(WatchedFilesSet(Cur, path, wd, given, fd))

\* del files[path]
FilesOpDelPath(path) ==
    /\ gen[path] < MaxDels
    /\ FilesResult(FilesDelPath(Cur, path))

\* del files[wd]
FilesOpDelWd(wd) ==
    /\ \A q \in Names : gen[q] < MaxDels
    /\ FilesResult(FilesDelWd(Cur, wd))

\* ------------------------------------------------------------------ rules

\* The rule files as the configuration names them.
RuleFiles == {"a.lua", "./a.lua", "b.lua"}

\* Path(rule_path): the path the registry keys its rules by; pathlib drops
\* a leading "./".
RulePath(rule_path) == IF rule_path = "./a.lua" THEN "a.lua" ELSE rule_path

RulePaths == {RulePath(f) : f \in RuleFiles}

\* Regular expressions of rules: lit(?P<grp>.*)end, or the text lit alone
\* when grp is "".  Rule('f(?P<val>.*)f'), Rule('b'), and Rule(): the regexp
\* of LuaRule is '' when none is given.
RxGroup == [lit |-> <<"f">>, grp |-> "val", end |-> <<"f">>]
RxPlain == [lit |-> <<"b">>, grp |-> "", end |-> <<>>]
NoRegexp == [lit |-> <<>>, grp |-> "", end |-> <<>>]
Regexps == {RxGroup, RxPlain, NoRegexp}

\* A regexp with a group that may take no part in a match: lit(?P<grp>opt)?,
\* Rule('b(?P<val>1)?').
RxOptional == [lit |-> <<"b">>, grp |-> "val", end |-> <<>>, opt |-> <<"1">>]

\* None, the value groupdict() gives for a group that took no part in the
\* match.
NoValue == <<"None">>

\* What a rule file can be: missing, Lua code with a syntax error, or code
\* that puts rules into the table "rules", the i-th of them under name i.
SourceContents ==
    {[kind |-> "missing", rules |-> <<>>], [kind |-> "syntax", rules |-> <<>>]}
    \cup {[kind |-> "ok", rules |-> r] :
             r \in UNION {[1..n -> Regexps] : n \in 0..MaxRules}}

\* The lines given to analyze_line.
Lines ==
    {<<"f", "1", "f">>, <<"f", "x", "f">>, <<"b">>, <<"f", "b", "f">>,
     <<"x">>}

\* The characters of the captured values given to _convert_values.
ValueChars == {"1", "-", ".", "e", "i", "n", "f", "a", " "}

Values == UNION {[1..n -> ValueChars] : n \in 0..MaxValueLen}

\* The state the methods of the registry read and change.
CurRules ==
    [rules_by_file |-> rules_by_file, heap |-> heap, analyzers |-> analyzers,
     loads |-> loads, ret |-> <<>>, err |-> FALSE, exc |-> ""]

\* A loader that keeps every rule of the table.
KeepAnyRule(rule) == TRUE

\* _get_rules_from_file: "if not rule.regexp" skips the rule.
KeepRule(rule) == rule.regexp # NoRegexp

\* RuleRegistry._get_rules_from_file(path): the file is read and executed,
\* and the rules of the table with a regexp are returned, in table order.
GetRulesFromFile(r, path) ==
    IF sources[path].kind = "missing"
    THEN [r EXCEPT !.err = TRUE, !.exc = "FileNotFoundError"]
    ELSE LET t == [r EXCEPT !.loads[path] = @ + 1]
             defs == [i \in DOMAIN sources[path].rules |->
                         [name |-> i, regexp |-> sources[path].rules[i]]]
         IN IF sources[path].kind = "syntax"
            THEN [t EXCEPT !.err = TRUE, !.exc = "RuleSyntaxError"]
            ELSE [t EXCEPT !.ret = SelectSeq(defs, KeepRule)]

\* A registry that finds no path in its cache.
CacheNever(r, path) == FALSE

\* _load_rules_from_file: rules = self._rules_by_file.get(path), and
\* "if not rules" is false: the path has a list and the list is not empty.
CacheHit(r, path) ==
    path \in DOMAIN r.rules_by_file /\ r.rules_by_file[path] # <<>>

\* RuleRegistry._load_rules_from_file(path): the list of the LuaFileRule
\* objects of the path; a list made here is made of new objects.
LoadRulesFromFile(r, path) ==
    IF CacheHit(r, path)
    THEN [r EXCEPT !.ret = r.rules_by_file[path]]
    ELSE LET t == GetRulesFromFile(r, path)
             n == Len(r.heap)
             new == [i \in DOMAIN t.ret |->
                        [name |-> t.ret[i].name, regexp |-> t.ret[i].regexp,
                         path |-> path]]
             ids == [i \in DOMAIN t.ret |-> n + i]
         IN IF t.err THEN t
            ELSE [t EXCEPT !.heap = @ \o new,
                           !.rules_by_file = (path :> ids) @@ @,
                           !.ret = ids]

\* RuleRegistry.get_file_analyzer(path, rule_path); source is history: the
\* path the rules were asked for.
GetFileAnalyzer(r, path, rule_path) ==
    LET t == LoadRulesFromFile(r, RulePath(rule_path))
    IN IF t.err THEN t
       ELSE [t EXCEPT !.analyzers =
                Append(@, [path |-> path, rules |-> t.ret,
                           source |-> RulePath(rule_path)])]

\* lit is in line at position i.
MatchesAt(lit, line, i) ==
    /\ i + Len(lit) - 1 <= Len(line)
    /\ \A k \in 1..Len(lit) : line[i + k - 1] = lit[k]

\* search(line) of a regexp with an optional group: the leftmost place of
\* lit; the group takes opt when opt follows, and else takes no part.
SearchOptional(rx, line) ==
    LET starts == {i \in 1..(Len(line) + 1) : MatchesAt(rx.lit, line, i)}
        i == CHOOSE x \in starts : \A y \in starts : x <= y
    IN IF starts = {} THEN [found |-> FALSE, groupdict |-> <<>>]
       ELSE [found |-> TRUE,
             groupdict |->
                 (rx.grp :> IF MatchesAt(rx.opt, line, i + Len(rx.lit))
                            THEN rx.opt ELSE NoValue)]

\* self._regexp.search(line): the leftmost match, the group taking as much
\* as it can; groupdict() is the named group with what it took.
Search(rx, line) ==
    IF "opt" \in DOMAIN rx THEN SearchOptional(rx, line) ELSE
    LET ends(i) == {j \in (i + Len(rx.lit))..(Len(line) + 1) :
                       MatchesAt(rx.end, line, j)}
        starts == {i \in 1..(Len(line) + 1) :
                      MatchesAt(rx.lit, line, i) /\ ends(i) # {}}
        i == CHOOSE x \in starts : \A y \in starts : x <= y
        j == CHOOSE x \in ends(i) : \A y \in ends(i) : x >= y
    IN IF starts = {} THEN [found |-> FALSE, groupdict |-> <<>>]
       ELSE IF rx.grp = "" THEN [found |-> TRUE, groupdict |-> <<>>]
       ELSE [found |-> TRUE,
             groupdict |->
                 (rx.grp :> SubSeq(line, i + Len(rx.lit), j - 1))]

\* s without the blanks around it.
RECURSIVE Strip(_)
Strip(s) ==
    IF s = <<>> THEN s
    ELSE IF Head(s) = " " THEN Strip(Tail(s))
    ELSE IF s[Len(s)] = " " THEN Strip(SubSeq(s, 1, Len(s) - 1))
    ELSE s

Unsigned(s) == IF s # <<>> /\ Head(s) \in {"+", "-"} THEN Tail(s) ELSE s

Digits == {"0", "1", "2", "3", "4", "5", "6", "7", "8", "9"}

AllDigits(s) == \A k \in 1..Len(s) : s[k] \in Digits

\* digits, digits. , .digits or digits.digits
IsMantissa(m) ==
    \E k \in 0..Len(m) :
        LET a == SubSeq(m, 1, k)
            rest == SubSeq(m, k + 1, Len(m))
        IN /\ AllDigits(a)
           /\ \/ rest = <<>> /\ a # <<>>
              \/ /\ rest # <<>> /\ Head(rest) = "."
                 /\ AllDigits(Tail(rest))
                 /\ a # <<>> \/ Tail(rest) # <<>>

IsExponent(x) ==
    /\ x # <<>> /\ Head(x) = "e"
    /\ Unsigned(Tail(x)) # <<>> /\ AllDigits(Unsigned(Tail(x)))

IsDecimal(u) ==
    \E k \in 1..Len(u) :
        /\ IsMantissa(SubSeq(u, 1, k))
        /\ k = Len(u) \/ IsExponent(SubSeq(u, k + 1, Len(u)))

\* float(value): class says what the text spells, "" when float() raises
\* ValueError.  Blanks around the text and a sign are accepted; inf,
\* infinity and nan are accepted and give values that are not finite.
Float(value) ==
    LET u == Unsigned(Strip(value))
    IN IF u \in {<<"i", "n", "f">>,
                 <<"i", "n", "f", "i", "n", "i", "t", "y">>} THEN "inf"
       ELSE IF u = <<"n", "a", "n">> THEN "nan"
       ELSE IF IsDecimal(u) THEN "finite"
       ELSE ""

\* One value of _convert_values: float(value), or on ValueError the value.
\* float(None) raises TypeError, which the except clause does not catch.
ConvertValue(value) ==
    IF value = NoValue
    THEN [type |-> "TypeError", class |-> "", of |-> value]
    ELSE IF Float(value) # ""
    THEN [type |-> "float", class |-> Float(value), of |-> value]
    ELSE [type |-> "str", class |-> "", of |-> value]

\* LuaFileRule._convert_values(match_dict)
ConvertValues(match_dict) ==
    [key \in DOMAIN match_dict |-> ConvertValue(match_dict[key])]

\* LuaFileRule.analyze_line(line) of rule object id in the call a of
\* FileAnalyzer.analyze_line; the action of rule failing raises.
RuleAnalyzeLine(a, id, line, failing) ==
    LET match == Search(heap[id].regexp, line)
        values == ConvertValues(match.groupdict)
    IN IF ~match.found THEN a
       ELSE IF \E key \in DOMAIN values : values[key].type = "TypeError"
       THEN [a EXCEPT !.raised = TRUE, !.exc = "TypeError"]
       ELSE [a EXCEPT !.invoked = Append(@, [rule |-> id, values |-> values]),
                      !.raised = (id = failing),
                      !.exc = IF id = failing THEN "action" ELSE @]

\* An analyzer that stops at the first rule that matches.
RECURSIVE AnalyzeFirstMatch(_, _, _, _)
AnalyzeFirstMatch(a, ids, line, failing) ==
    IF ids = <<>> \/ a.raised \/ a.invoked # <<>> THEN a
    ELSE AnalyzeFirstMatch(RuleAnalyzeLine(a, Head(ids), line, failing),
                           Tail(ids), line, failing)

\* FileAnalyzer.analyze_line(line): for rule in self.rules; what a rule
\* raises ends the loop.
RECURSIVE AnalyzeRules(_, _, _, _)
AnalyzeRules(a, ids, line, failing) ==
    IF ids = <<>> \/ a.raised THEN a
    ELSE AnalyzeRules(RuleAnalyzeLine(a, Head(ids), line, failing),
                      Tail(ids), line, failing)

NoAnalysis == [analyzer |-> 0, line |-> <<>>, invoked |-> <<>>,
               raised |-> FALSE, exc |-> ""]

NoConv == [match_dict |-> <<>>, values |-> <<>>, done |-> FALSE]

\* registry.get_file_analyzer for the next log file of the configuration,
\* as create_file_analyzers calls it for the files one after the other.
GetAnalyzer(rule_path) ==
    /\ Len(analyzers) < MaxAnalyzers
    /\ loads[RulePath(rule_path)] < MaxAnalyzers
    /\ LET r == GetFileAnalyzer(CurRules, Len(analyzers) + 1, rule_path)
       IN /\ rules_by_file' = r.rules_by_file
          /\ heap' = r.heap
          /\ analyzers' = r.analyzers
          /\ loads' = r.loads
    /\ UNCHANGED <<fsVars, inVars, taskVars, watcherVars, lifeVars, app,
                   sources, analysis, conv>>

\* analyzer.analyze_line(line) on one of the analyzers.
AnalyzeLineCall(k, line, failing) ==
    /\ k \in DOMAIN analyzers
    /\ failing = 0 \/ failing \in {analyzers[k].rules[i] :
                             i \in DOMAIN analyzers[k].rules}
    /\ analysis' = AnalyzeRules([NoAnalysis EXCEPT !.analyzer = k,
                                                   !.line = line],
                                analyzers[k].rules, line, failing)
    /\ UNCHANGED <<fsVars, inVars, taskVars, watcherVars, lifeVars, app,
                   sources, rules_by_file, heap, analyzers, loads, conv>>

\* rule._convert_values(match.groupdict())
ConvertCall ==
    /\ conv # NoConv /\ ~conv.done
    /\ conv' = [conv EXCEPT !.values = ConvertValues(conv.match_dict),
                            !.done = TRUE]
    /\ UNCHANGED <<fsVars, inVars, taskVars, watcherVars, lifeVars, app,
                   sources, rules_by_file, heap, analyzers, loads, analysis>>

\* No registry: no rule file, no analyzer.
NoRules ==
    /\ sources = [p \in RulePaths |-> [kind |-> "missing", rules |-> <<>>]]
    /\ rules_by_file = <<>>
    /\ heap = <<>>
    /\ analyzers = <<>>
    /\ loads = [p \in RulePaths |-> 0]
    /\ analysis = NoAnalysis
    /\ conv = NoConv

\* ------------------------------------------------------------------ specs

\* The directory when the watcher is constructed: inode i is the file of
\* the i-th name.
InitDir(present) ==
    /\ dir = [n \in Names |->
                IF n \notin present THEN 0
                ELSE IF n = F1 THEN 1 ELSE IF n = F2 THEN 2 ELSE 3]
    /\ \E c1 \in InitContents :
          content = <<IF F1 \in present THEN c1 ELSE <<>>,
                      IF F2 \in present THEN <<FALSE, TRUE>> ELSE <<>>,
                      IF Other \in present THEN <<FALSE, TRUE>> ELSE <<>> >>
    /\ hidden = IF Other \in present THEN {<<3, 1>>, <<3, 2>>} ELSE {}
    /\ mark = <<-1, -1, -1>>
    /\ epoch = <<0, 0, 0>>
    /\ bad = {}

\* The state after FileWatcher.__init__, the directory being one of dirs.
InitWatcher(dirs, actions, nops) ==
    /\ \E present \in dirs : InitDir(present)
    /\ ops = 0
    /\ budget = nops
    /\ ncookie = 0
    /\ dirWatch = FALSE
    /\ watches = <<>>
    /\ queue = <<>>
    /\ pc = "new"
    /\ globbed = <<>>
    /\ todo = <<>>
    /\ cur = NoPath
    /\ files = <<>>
    /\ wd_to_path = <<>>
    /\ move_cookies = {}
    /\ partial = <<>>
    /\ calls = <<>>
    /\ received = <<>>
    /\ gen = [n \in Names |-> 0]
    /\ raises \in actions
    /\ exception = ""
    /\ stale = {}
    /\ staleCalls = {}
    /\ nopen = 0
    /\ orphans = 0
    /\ stop = "none"
    /\ runs = 0
    /\ restartCalls = 0

\* One watcher alone, as the tests of FileWatcher make it: no process runs
\* main().
InitWith(dirs, actions, nops) ==
    /\ InitWatcher(dirs, actions, nops)
    /\ app = NoApp
    /\ NoRules

Bootstrap ==
    \/ Watch
    \/ WatchDir
    \/ Glob
    \/ BootRead
    \/ BootWatch
    \/ BootEnd

\* Every directory, every operation on it; the actions of the rules do not
\* raise.
Init == InitWith(SUBSET Names, {FALSE}, MaxOps)

Next ==
    \/ Bootstrap
    \/ EventIgnored
    \/ EventCreated
    \/ EventWatch
    \/ EventMovedFrom
    \/ EventDelete
    \/ EventFile
    \/ \E n \in Names : FsCreate(n)
    \/ \E n \in Names, chunk \in Chunks : FsAppend(n, chunk)
    \/ \E a, b \in Names : FsRename(a, b)
    \/ \E n \in Names : FsUnlink(n)

Spec == Init /\ [][Next]_vars

\* One watched file that is only appended to.
InitAppend == InitWith({{F1}}, {FALSE}, MaxScenarioOps)

NextAppend ==
    \/ Bootstrap
    \/ EventFile
    \/ \E chunk \in Chunks : FsAppend(F1, chunk)

SpecAppend == InitAppend /\ [][NextAppend]_vars

\* One watched file that is only appended to; the action of the rule may
\* raise.
InitRaise == InitWith({{F1}}, BOOLEAN, MaxScenarioOps)

SpecRaise == InitRaise /\ [][NextAppend]_vars

\* Rotation: the watched file is removed or renamed away, and created again.
InitRotate == InitWith({{F1}}, {FALSE}, MaxScenarioOps)

NextRotate ==
    \/ Bootstrap
    \/ EventIgnored
    \/ EventCreated
    \/ EventWatch
    \/ EventMovedFrom
    \/ EventDelete
    \/ EventFile
    \/ FsUnlink(F1)
    \/ FsRename(F1, Other)
    \/ FsCreate(F1)
    \/ \E chunk \in Chunks : FsAppend(F1, chunk)

SpecRotate == InitRotate /\ [][NextRotate]_vars

\* Renames between names that match, and appends.
InitRename == InitWith({{F1}, {F1, F2}}, {FALSE}, MaxScenarioOps)

NextRename ==
    \/ Bootstrap
    \/ EventCreated
    \/ EventWatch
    \/ EventMovedFrom
    \/ EventFile
    \/ \E a, b \in {F1, F2} : FsRename(a, b)
    \/ \E n \in {F1, F2}, chunk \in Chunks : FsAppend(n, chunk)

SpecRename == InitRename /\ [][NextRename]_vars

\* A file of a name that does not match is renamed to one that does.
InitRenameIn == InitWith({{Other}, {F1, Other}}, {FALSE}, MaxScenarioOps)

NextRenameIn ==
    \/ Bootstrap
    \/ EventIgnored
    \/ EventCreated
    \/ EventWatch
    \/ EventFile
    \/ FsRename(Other, F1)
    \/ \E n \in {F1, Other}, chunk \in Chunks : FsAppend(n, chunk)

SpecRenameIn == InitRenameIn /\ [][NextRenameIn]_vars

\* One watched file that is appended to; the watcher is stopped and started
\* again; the action of the rule may raise.
InitStop == InitWith({{F1}}, BOOLEAN, MaxScenarioOps)

NextStop ==
    \/ Bootstrap
    \/ EventFile
    \/ Stop
    \/ \E chunk \in Chunks : FsAppend(F1, chunk)

SpecStop == InitStop /\ [][NextStop]_vars

\* One watched file, watch() and stop() in any order, watch() also while a
\* task runs.
InitRewatch == InitWith({{F1}}, {FALSE}, MaxScenarioOps)

NextRewatch ==
    \/ Bootstrap
    \/ WatchAgain
    \/ EventFile
    \/ Stop
    \/ \E chunk \in Chunks : FsAppend(F1, chunk)

SpecRewatch == InitRewatch /\ [][NextRewatch]_vars

\* One watched file that is truncated in place and written again.
InitTruncate == InitWith({{F1}}, {FALSE}, MaxScenarioOps)

NextTruncate ==
    \/ Bootstrap
    \/ EventFile
    \/ FsTruncate(F1)
    \/ \E chunk \in Chunks : FsAppend(F1, chunk)

SpecTruncate == InitTruncate /\ [][NextTruncate]_vars

\* One watched file to which text and bytes that are not text are appended.
InitDecode == InitWith({{F1}}, {FALSE}, MaxScenarioOps)

NextDecode ==
    \/ Bootstrap
    \/ EventFile
    \/ FsAppendBad(F1)
    \/ \E chunk \in Chunks : FsAppend(F1, chunk)

SpecDecode == InitDecode /\ [][NextDecode]_vars

\* Two files of the glob, both only appended to, the writes interleaving.
InitInterleave == InitWith({{F1, F2}}, {FALSE}, MaxScenarioOps)

NextInterleave ==
    \/ Bootstrap
    \/ EventFile
    \/ \E n \in {F1, F2}, chunk \in Chunks : FsAppend(n, chunk)

SpecInterleave == InitInterleave /\ [][NextInterleave]_vars

\* The process: main() run with a configuration, or a web application made
\* by create_web_app for watchers its caller has.
InitApp ==
    /\ InitWatcher({{}}, {FALSE}, 0)
    /\ NoRules
    /\ \/ \E c \in Configs :
             app = [NoApp EXCEPT !.entry = "main", !.cfg = c, !.pc = "start"]
       \/ app = [NoApp EXCEPT !.entry = "direct", !.pc = "watchers",
                              !.tasks = [i \in 1..NWatchers |-> "new"],
                              !.stopCalled = [i \in 1..NWatchers |-> FALSE]]

NextApp ==
    \/ MainLoadConfig
    \/ MainCreateMetrics
    \/ MainCreateFileAnalyzers
    \/ MainCreateWatchers
    \/ CreateApp
    \/ StartWatchers
    \/ \E i \in 1..NWatchers : WatcherRuns(i)
    \/ \E i \in 1..NWatchers : WatcherFails(i)
    \/ Shutdown
    \/ StopNextWatcher
    \/ StopWatchersDone

SpecApp == InitApp /\ [][NextApp]_vars

\* A registry, as create_file_analyzers makes it: a.lua is any rule file,
\* b.lua defines one rule; analyzers are asked of it and lines given to them.
InitRules ==
    /\ InitWatcher({{}}, {FALSE}, 0)
    /\ app = NoApp
    /\ \E c \in SourceContents :
          sources = [p \in RulePaths |->
                        IF p = "a.lua" THEN c
                        ELSE [kind |-> "ok", rules |-> <<RxPlain>>]]
    /\ rules_by_file = <<>>
    /\ heap = <<>>
    /\ analyzers = <<>>
    /\ loads = [p \in RulePaths |-> 0]
    /\ analysis = NoAnalysis
    /\ conv = NoConv

NextRules ==
    \/ \E f \in RuleFiles : GetAnalyzer(f)
    \/ \E k \in 1..MaxAnalyzers, line \in Lines, failing \in 0..Len(heap) :
          AnalyzeLineCall(k, line, failing)

SpecRules == InitRules /\ [][NextRules]_vars

\* A registry whose a.lua has rules with an optional group.
OptionalContents ==
    {[kind |-> "ok", rules |-> r] :
        r \in UNION {[1..n -> {RxOptional, RxPlain}] : n \in 1..MaxRules}}

InitOptional ==
    /\ InitWatcher({{}}, {FALSE}, 0)
    /\ app = NoApp
    /\ \E c \in OptionalContents :
          sources = [p \in RulePaths |->
                        IF p = "a.lua" THEN c
                        ELSE [kind |-> "ok", rules |-> <<RxPlain>>]]
    /\ rules_by_file = <<>>
    /\ heap = <<>>
    /\ analyzers = <<>>
    /\ loads = [p \in RulePaths |-> 0]
    /\ analysis = NoAnalysis
    /\ conv = NoConv

NextOptional ==
    \/ \E f \in RuleFiles : GetAnalyzer(f)
    \/ \E k \in 1..MaxAnalyzers, line \in {<<"b">>, <<"b", "1">>, <<"x">>},
          failing \in 0..Len(heap) :
          AnalyzeLineCall(k, line, failing)

SpecOptional == InitOptional /\ [][NextOptional]_vars

\* One call of _convert_values with one captured value.
InitConvert ==
    /\ InitWatcher({{}}, {FALSE}, 0)
    /\ app = NoApp
    /\ sources = [p \in RulePaths |-> [kind |-> "missing", rules |-> <<>>]]
    /\ rules_by_file = <<>>
    /\ heap = <<>>
    /\ analyzers = <<>>
    /\ loads = [p \in RulePaths |-> 0]
    /\ analysis = NoAnalysis
    /\ \E v \in Values : conv = [NoConv EXCEPT !.match_dict = ("val" :> v)]

SpecConvert == InitConvert /\ [][ConvertCall]_vars

\* A WatchedFiles alone, as WatchedFilesTests use it: any set and del.
InitFiles == InitWith({{}}, {FALSE}, 0)

NextFiles ==
    \/ \E path \in {F1, F2}, wd \in {Default, None, 1, 2},
          given \in BOOLEAN, fd \in {NoFd, Fd1} :
          FilesOpSet(path, wd, given, fd)
    \/ \E path \in {F1, F2} : FilesOpDelPath(path)
    \/ \E wd \in {1, 2} : FilesOpDelWd(wd)

SpecFiles == InitFiles /\ [][NextFiles]_vars

\* ----------------------------------------------------------------- claims

\* The task waits for an event and no event is pending.
Quiescent == pc = "loop" /\ queue = <<>>

\* The records of a file: its lines that end with a newline, in file order.
FileLines(ino) == SplitLines(BytesFrom(ino, 0), <<>>, <<>>).lines

\* The byte at pos of ino is data of a record that has its newline.
InRecord(ino, pos) ==
    /\ ~content[ino][pos]
    /\ \E q \in pos..Len(content[ino]) : content[ino][q]

\* How many times the byte at pos of ino was in a line given to the callback.
Occurrences(ino, pos) ==
    Cardinality(UNION {{<<k, i>> : i \in {j \in 1..Len(calls[k]) :
                                              /\ calls[k][j].ino = ino
                                              /\ calls[k][j].pos = pos}} :
                       k \in 1..Len(calls)})

\* line is a record of one file: bytes of that file at consecutive offsets,
\* starting where a line starts, with the newline of the file after them.
IsFileLine(line) ==
    /\ line # <<>>
    /\ LET ino == line[1].ino
           first == line[1].pos
       IN /\ \A i \in 1..Len(line) :
                line[i].ino = ino /\ line[i].pos = first + i - 1
          /\ first = 1 \/ content[ino][first - 1]
          /\ first + Len(line) <= Len(content[ino])
          /\ content[ino][first + Len(line)]

\* C1: no byte of a file is passed to the line buffer twice while the entry
\* of its path exists: two bytes received under one path and one entry of
\* that path are bytes at different offsets or of different files.
C1_NoByteReceivedTwice ==
    \A i, j \in 1..Len(received) :
        (/\ i # j
         /\ received[i].name = received[j].name
         /\ received[i].gen = received[j].gen
         /\ received[i].ino = received[j].ino)
        => received[i].pos # received[j].pos

\* C2: one watched file that is only appended to: once every pending event
\* is processed the callback was invoked once per record of the file, in
\* file order, with the newline removed.
C2_RecordsDeliveredOnce ==
    Quiescent => calls = FileLines(dir[F1])

\* C3: the callback is invoked only with complete lines: every line it got
\* is a record of one file, from the start of the line to its newline.
C3_OnlyCompleteLines ==
    \A k \in 1..Len(calls) : IsFileLine(calls[k])

\* C4: rotation: once every pending event is processed after the tracked
\* file.txt went away and a new file.txt was created, the callback got the
\* lines of the old file, each once, and then every record of the new file
\* from offset 0.
C4_RotationReadsFromZero ==
    (Quiescent /\ dir[F1] > 3)
    => LET new == FileLines(dir[F1])
           old == Len(calls) - Len(new)
       IN /\ old >= 0
          /\ SubSeq(calls, old + 1, Len(calls)) = new
          /\ \A i \in 1..old : IsFileLine(calls[i]) /\ calls[i][1].ino = 1
          /\ \A i, j \in 1..old : i # j => calls[i] # calls[j]

\* C5: a tracked file renamed to another matching name: no byte that was
\* received under the old name is received again under the new name.
C5_RenameIsSilent ==
    \A i, j \in 1..Len(received) :
        (received[i].ino = received[j].ino /\ received[i].pos = received[j].pos)
        => received[i].name = received[j].name

\* C6: after a rename between matching names, once every pending event is
\* processed, each record appended to the file under its new name was given
\* to the callback exactly once.
C6_AppendedAfterRenameDelivered ==
    Quiescent =>
        \A n \in {F1, F2} :
            (dir[n] # 0 /\ mark[dir[n]] >= 0) =>
                \A pos \in (mark[dir[n]] + 1)..Len(content[dir[n]]) :
                    InRecord(dir[n], pos) => Occurrences(dir[n], pos) = 1

\* C7: a file renamed from a name that does not match to file.txt: once
\* every pending event is processed, each record of the file, those it had
\* and those appended later, was given to the callback exactly once.
C7_RenameInReadsFromZero ==
    (Quiescent /\ dir[F1] = 3) =>
        \A pos \in 1..Len(content[3]) :
            InRecord(3, pos) => Occurrences(3, pos) = 1

\* What was received under path p from the file its handle is open on, since
\* the entry of p was made.
ReceivedOf(p) ==
    SelectSeq(received, LAMBDA r : /\ r.name = p
                                   /\ r.gen = gen[p]
                                   /\ r.ino = files[p].fd.ino)

\* The entry of p is whole: handle and watch descriptor are set.
Tracked(p) ==
    /\ p \in DOMAIN files
    /\ files[p].wd # None
    /\ files[p].fd # NoFd

\* The handle of p was opened at offset 0 and every byte of the file before
\* its offset was received, in file order, by the reads since it was opened.
ReadFromStart(p) ==
    /\ files[p].fd.from = 0
    /\ LET r == ReceivedOf(p)
           n == files[p].fd.pos
       IN /\ Len(r) >= n
          /\ \A i \in 1..n : r[Len(r) - n + i].pos = i

\* The paths of the glob that the bootstrap has handled.
Bootstrapped ==
    {globbed[i] : i \in 1..(Len(globbed) - Len(todo))}

\* C8 (first part): no byte is received that was appended to a file while
\* the file had no matching name and no entry of the watcher, unless a
\* matching name links the file when it is read.
OnlyMatchingFilesRead ==
    \A i \in 1..Len(received) :
        received[i].m \/ <<received[i].ino, received[i].pos>> \notin hidden

\* C8 (second part): once every pending event is processed, each entry of
\* the table is the entry of a name a file has: the entry of a file that was
\* renamed away is dropped.
RenamedAwayDropped ==
    Quiescent => \A p \in DOMAIN files : Matches(p) /\ dir[p] # 0

RECURSIVE IsSubSeq(_, _)
\* The elements of a are in b, in the order of a.
IsSubSeq(a, b) ==
    IF a = <<>> THEN TRUE
    ELSE IF b = <<>> THEN FALSE
    ELSE IF Head(a) = Head(b) THEN IsSubSeq(Tail(a), Tail(b))
    ELSE IsSubSeq(a, Tail(b))

\* The complete lines the file of p's handle holds before the handle's
\* offset were given to the callback, each as it is in the file, in file
\* order.
LinesDelivered(p) ==
    LET fd == files[p].fd
        read == SubSeq(BytesFrom(fd.ino, 0), 1, fd.pos)
    IN IsSubSeq(SplitLines(read, <<>>, <<>>).lines, calls)

\* While the task runs, an entry that has its watch descriptor has its
\* handle, and a handle that reads from the start has passed the file
\* received up to its offset.
WatchedAfterRead ==
    pc \in {"bootread", "bootwatch", "loop", "evwatch"} =>
        \A p \in DOMAIN files :
            files[p].wd # None =>
                /\ files[p].fd # NoFd
                /\ files[p].fd.from = 0 => ReadFromStart(p)

\* During the bootstrap and at its end every path the bootstrap has handled
\* has a whole entry whose handle has read the file from offset 0.
BootstrappedTracked ==
    pc \in {"bootread", "bootwatch"} =>
        \A p \in Bootstrapped : Tracked(p) /\ ReadFromStart(p)

\* During the bootstrap and at its end the callback has got the complete
\* lines of every file the bootstrap has handled.
BootstrappedDelivered ==
    pc \in {"bootread", "bootwatch"} =>
        \A p \in Bootstrapped : Tracked(p) => LinesDelivered(p)

\* C9: bootstrap: every file of the glob is opened at offset 0, its complete
\* lines are delivered to the callback in file order, then its modify watch
\* is installed and its entry has handle and descriptor; an entry made
\* later, on a create event, is watched after it was read in the same way.
C9_BootstrapReadsThenWatches ==
    /\ WatchedAfterRead
    /\ BootstrappedTracked
    /\ BootstrappedDelivered

\* C10: an action that raises does not stop the watcher: after the callback
\* was invoked with a line on which the action raises, the task still runs.
C10_ActionErrorContained ==
    (raises /\ calls # <<>>) => pc # "failed"

\* What stop() changes, as it is now.
StopState ==
    [stop |-> stop, pc |-> pc, dirWatch |-> dirWatch, watches |-> watches,
     queue |-> queue, files |-> files, stale |-> stale, nopen |-> nopen]

\* No handle of the table is open.
AllClosed == \A p \in DOMAIN files : files[p].fd = NoFd

\* The inotify instance is closed: no watch descriptor, no pending event.
InotifyReleased ==
    /\ ~dirWatch
    /\ \A k \in DOMAIN watches : watches[k] = 0
    /\ queue = <<>>

\* C11: once stop() has returned on a started watcher the task has ended,
\* every entry of the table has its handle closed and the inotify instance
\* with its watch descriptors is released, whether the task was cancelled
\* before its first step or while it waited for an event.
C11_StopReleasesAll ==
    stop = "returned" =>
        /\ pc = "cancelled"
        /\ AllClosed
        /\ InotifyReleased

\* stop() has returned on a watcher that had read and watched file.txt.
C11_Witness ==
    /\ stop = "returned"
    /\ F1 \in DOMAIN files
    /\ files[F1].wd # None
    /\ calls # <<>>

\* C12: a stop() on a watcher whose task has ended with an error returns
\* normally and leaves no handle open.
C12_StopAfterFailure ==
    (pc = "failed" /\ stop # "none") => (stop = "returned" /\ AllClosed)

\* C13: a stop() on a watcher that was never started returns normally.
C13_StopBeforeWatch ==
    (pc = "new" /\ stop # "none") => stop = "returned"

\* C14: a stop() after a stop() that has returned returns normally and
\* changes neither the task, the table, the handles nor the inotify state
\* (stop() changes nothing else of the watcher).
C14_StopIdempotent ==
    (pc = "cancelled" /\ stop = "returned") => StopResult = StopState

\* stop() has returned on a watcher that had an open handle and a watch.
C14_Witness ==
    /\ pc = "cancelled"
    /\ stop = "returned"
    /\ \E p \in DOMAIN files : files[p].wd # None
    /\ watches # <<>>

\* The lines the callback got since the last watch().
CallsSinceWatch == SubSeq(calls, restartCalls + 1, Len(calls))

\* Every line the callback got since the last watch() is a whole line of a
\* file.
WholeLinesSinceWatch ==
    \A k \in 1..Len(CallsSinceWatch) : IsFileLine(CallsSinceWatch[k])

\* Once every pending event is processed the callback has got, since the
\* last watch(), the records of file.txt, each once, in file order: what a
\* watcher started for the first time delivers.
RecordsSinceWatch ==
    (Quiescent /\ ~raises) => CallsSinceWatch = FileLines(dir[F1])

\* C15: after a stop() that has returned, watch() starts a new task and the
\* restarted watcher delivers what a watcher started for the first time
\* delivers: whole lines only, and every record of the file exactly once,
\* the records appended after the restart among them.
C15_RestartIsFresh ==
    runs = 2 => (WholeLinesSinceWatch /\ RecordsSinceWatch)

\* C16: when the shutdown of the application is over, stop() was called on
\* every watcher of the list, whatever the stop() of another watcher raised.
C16_EveryWatcherStopped ==
    app.pc = "down" => \A i \in 1..NWatchers : app.stopCalled[i]

\* A configuration main() cannot load: the type of a metric is unknown, the
\* rule file is missing or does not parse.
BadConfig == app.cfg.metric # "ok" \/ app.cfg.rules # "ok"

\* watch() was called on a watcher of the application.
SomeWatcherStarted ==
    \E i \in DOMAIN app.tasks : app.tasks[i] # "new"

OffsetInFile ==
    files[F1].fd.pos <= Len(content[files[F1].fd.ino])

\* The file the handle of file.txt is open on was truncated in place and
\* written again.
TruncatedAndWritten ==
    /\ Tracked(F1)
    /\ epoch[files[F1].fd.ino] > 0
    /\ content[files[F1].fd.ino] # <<>>

\* C18: when the tracked file was truncated in place and written again, and
\* every pending event is processed, the offset of the handle is not beyond
\* the end of the file, and the records written since the truncation were
\* delivered from the beginning of the file, in file order.
C18_TruncationRereads ==
    (Quiescent /\ TruncatedAndWritten) =>
        /\ OffsetInFile
        /\ IsSubSeq(FileLines(files[F1].fd.ino), calls)

\* C19: the watch task does not end because a matching file could not be
\* opened or watched.
C19_OpenFailureContained ==
    exception \notin {"open", "watch"}

\* C20: the watch task does not end because what it read could not be
\* decoded.
C20_DecodeErrorContained ==
    exception # "decode"
\* C21: a half-written record is never a metric event: data without a
\* newline that was buffered for a file when its handle was closed or its
\* entry destroyed (delete, moved-from, stop) is in no line the callback
\* gets, neither alone nor joined with what is read later.
C21_ClosedPartialNeverDelivered ==
    \A k \in 1..Len(calls) : k \notin staleCalls

\* C22: line reassembly is per file: every line the callback gets consists
\* of bytes of one file; the partial line of one file is never joined with
\* bytes read from another file.
C22_LinesOfOneFile ==
    \A k \in 1..Len(calls) :
        \A i, j \in 1..Len(calls[k]) : calls[k][i].ino = calls[k][j].ino

\* The rule objects an analyzer holds.
RuleObjects(k) == {analyzers[k].rules[i] : i \in DOMAIN analyzers[k].rules}

\* C23: RuleSet sharing: two FileAnalyzers of one registry that were asked
\* for the same rule file path hold the same rule objects, the very objects
\* and in the same order; two that were asked for different paths hold no
\* object in common.
C23_RuleSetSharing ==
    \A i, j \in DOMAIN analyzers :
        IF analyzers[i].source = analyzers[j].source
        THEN analyzers[i].rules = analyzers[j].rules
        ELSE RuleObjects(i) \cap RuleObjects(j) = {}

\* Two analyzers of one rule file that defines rules, and one of another.
C23_Witness ==
    \E i, j, k \in DOMAIN analyzers :
        /\ i # j
        /\ analyzers[i].source = analyzers[j].source
        /\ analyzers[i].rules # <<>>
        /\ analyzers[k].source # analyzers[i].source
        /\ analyzers[k].rules # <<>>

\* C24: load once: whatever rules a rule file defines, the registry reads
\* and executes it at most once, on the first reference; every later
\* reference reuses the list it cached.
C24_LoadOnce ==
    \A p \in RulePaths : sources[p].kind = "ok" => loads[p] <= 1

\* The rules of analyzer k whose regexp is found in line, in load order.
MatchingRules(k, line) ==
    SelectSeq(analyzers[k].rules,
              LAMBDA id : Search(heap[id].regexp, line).found)

C26_OnlyFiniteNumbersCoerced ==
    conv.done
    => \A g \in DOMAIN conv.match_dict :
          IF Float(conv.match_dict[g]) = "finite"
          THEN conv.values[g].type = "float"
          ELSE /\ conv.values[g].type = "str"
               /\ conv.values[g].of = conv.match_dict[g]

\* The names of the rules of a list of rule objects, in order.
RuleNames(ids) == [i \in DOMAIN ids |-> heap[ids[i]].name]

\* The names under which the rule file of analyzer k defines a rule with a
\* regexp that is not empty.
ValidNames(k) ==
    {i \in DOMAIN sources[analyzers[k].source].rules :
        sources[analyzers[k].source].rules[i] # NoRegexp}

\* C27: a rule whose regexp is empty or missing once the rule file has run
\* is dropped at load: no analyzer has it in its rule list, and the other
\* rules of the file are loaded all the same, each once.
C27_EmptyRegexpDropped ==
    \A k \in DOMAIN analyzers :
        /\ \A i \in DOMAIN analyzers[k].rules :
              heap[analyzers[k].rules[i]].regexp # NoRegexp
        /\ {RuleNames(analyzers[k].rules)[i] : i \in DOMAIN analyzers[k].rules}
               = ValidNames(k)
        /\ Len(analyzers[k].rules) = Cardinality(ValidNames(k))

\* An analyzer of a rule file that defines a rule with no regexp and a
\* rule with one.
C27_Witness ==
    \E k \in DOMAIN analyzers :
        /\ ValidNames(k) # {}
        /\ ValidNames(k) # DOMAIN sources[analyzers[k].source].rules

\* C28: in every state of a watcher, an entry of the table whose wd field is
\* not None names a watch that exists in the inotify instance, also once
\* stop() has returned and once a file of a tracked name was created again.
C28_EntryDescriptorsExist ==
    \A p \in DOMAIN files :
        files[p].wd # None
        => /\ dirWatch
           /\ files[p].wd \in DOMAIN watches
           /\ watches[files[p].wd] # 0

\* C29: when a directory event (moved-from or delete) destroys a tracked
\* entry, the watch of the entry's descriptor is released before the entry
\* is dropped: no step drops an entry and leaves the watch its wd field
\* names registered in the inotify instance.
C29_ReleasedBeforeDropped ==
    [][\A p \in DOMAIN files :
          (p \notin DOMAIN files' /\ files[p].wd # None)
          => ~(/\ files[p].wd \in DOMAIN watches'
               /\ watches'[files[p].wd] # 0)]_vars

\* C30: WatchedFiles dual indexing: for every entry of the table, stored
\* under path p with watch descriptor d, the lookup by d gives the entry the
\* lookup by p gives; the lookup of a descriptor the index does not hold
\* gives nothing.
C30_DualIndexing ==
    /\ \A p \in DOMAIN files :
          files[p].wd # None => FilesPathByWd(Cur, files[p].wd) = p
    /\ \A d \in {1, 2} :
          d \notin DOMAIN wd_to_path => FilesPathByWd(Cur, d) = NoPath

\* The table as a step leaves it.
FilesAfter == [files |-> files', wd_to_path |-> wd_to_path']

\* C31: removal from a WatchedFiles is complete in both indexes: once a step
\* has deleted the entry of path p, whose descriptor was d, neither key
\* reaches it: p is not among the paths, d is neither in the table nor
\* among wds(), and the lookup by d gives nothing.
C31_RemovalComplete ==
    [][\A p \in DOMAIN files :
          p \notin DOMAIN files'
          => \/ files[p].wd = None
             \/ /\ files[p].wd \notin DOMAIN wd_to_path'
                /\ FilesPathByWd(FilesAfter, files[p].wd) = NoPath]_vars

\* What set(path, wd, fd) has to leave: the entry of path exists, a field
\* that was passed has the value passed (None when None was passed), a field
\* that was not passed has the value it had, or None when the entry is new,
\* and every other entry is as it was.
SetPost(path, wd, given, fd) ==
    /\ path \in DOMAIN files'
    /\ files'[path].wd =
          IF wd # Default THEN wd
          ELSE IF path \in DOMAIN files THEN files[path].wd ELSE None
    /\ files'[path].fd =
          IF given THEN fd
          ELSE IF path \in DOMAIN files THEN files[path].fd ELSE NoFd
    /\ DOMAIN files' = DOMAIN files \cup {path}
    /\ \A q \in DOMAIN files : q # path => files'[q] = files[q]

\* C32: WatchedFiles.set(path, ...) creates the entry with both fields None
\* when the path is new, changes only the fields that are passed, an
\* explicit None clearing the field, and leaves every other entry unchanged.
C32_SetChangesOnlyPassed ==
    [][\A path \in {F1, F2}, wd \in {Default, None, 1, 2},
          given \in BOOLEAN, fd \in {NoFd, Fd1} :
          FilesOpSet(path, wd, given, fd) => SetPost(path, wd, given, fd)]_vars

\* Two entries: one was given a descriptor and a handle, and then the other
\* was created with no field passed.
C32_Witness ==
    /\ F1 \in DOMAIN files /\ F2 \in DOMAIN files
    /\ files[F1].wd # None /\ files[F1].fd # NoFd
    /\ files[F2].wd = None /\ files[F2].fd = NoFd

\* C34: the descriptor index of a WatchedFiles is consistent with the
\* entries after any sequence of set and delete: a descriptor resolves to an
\* entry only if the wd field of that entry is the descriptor, so that a
\* descriptor that was replaced or cleared with set() resolves to nothing.
C34_DescriptorIndexConsistent ==
    \A d \in {1, 2} :
        FilesPathByWd(Cur, d) # NoPath
        => files[FilesPathByWd(Cur, d)].wd = d


\* The entries of the table that hold a handle.
HeldHandles == {p \in DOMAIN files : files[p].fd # NoFd}

\* C33: no read handle is leaked.  The handles the watcher opened and has
\* not closed are as many as the entries that hold a handle: an entry that
\* is removed, or whose handle is replaced by a newly opened one, had its
\* handle closed first, and every open handle is the handle of one entry.
C33_NoHandleLeaked == nopen = Cardinality(HeldHandles)

\* A name was removed from the table while its handle was open, and the
\* name is tracked again with a newly opened handle.
C33_Witness ==
    /\ gen[F1] >= 1
    /\ F1 \in HeldHandles
    /\ nopen >= 1


\* C35: no watch task survives stop().  When stop() has returned, no task
\* that an earlier watch() of the watcher created is still running.
C35_NoTaskSurvivesStop == stop = "returned" => orphans = 0


\* C36: analyze_line does not fail on a line the rule matches with a named
\* group that took no part in the match.  The call of analyze_line does not
\* end with the TypeError of the conversion, and when it returns, every rule
\* of the analyzer that matches the line with such a group was invoked.
C36_UnmatchedGroupConverted ==
    /\ analysis.exc # "TypeError"
    /\ analysis # NoAnalysis /\ ~analysis.raised
       => \A id \in RuleObjects(analysis.analyzer) :
              LET match == Search(heap[id].regexp, analysis.line)
              IN match.found
                 /\ (\E key \in DOMAIN match.groupdict :
                        match.groupdict[key] = NoValue)
                 => \E i \in DOMAIN analysis.invoked :
                        analysis.invoked[i].rule = id

====
